---- MODULE Spec2Model ----
(***************************************************************************)
(* Model of the backup manager (BackupManager.backupData, copyFiles,       *)
(* backupWithManualCommands) and of the /status aggregator of the vulkan   *)
(* backend.  Two variants of the backup manager exist in the repository:   *)
(*   "A" = src/src/utils/backup-manager.js                                 *)
(*   "B" = src/unnamed/part_006                                            *)
(* and two variants of the status router:                                  *)
(*   "full" = src/unnamed/part_001 (HTTP + TCP + container probes)         *)
(*   "http" = src/unnamed/part_002 (HTTP probes only)                      *)
(* Every step of the model is one run-to-completion turn of the Node.js    *)
(* event loop: from the resumption of an await to the next await.          *)
(* Further parts: a single probe with its timer (checkService,             *)
(* checkTCPPort, checkContainerStatus of part_001), the vault request      *)
(* chain with backupMiddleware (vault.js, part_004) and                    *)
(* BackupManager.initialize.                                               *)
(***************************************************************************)
EXTENDS Integers, Sequences, FiniteSets, TLC

\* ---------------------------------------------------------------- bounds
MaxCalls == 2          \* number of backupData invocations
MaxWrites == 1         \* number of writes the API makes to the data directory
MaxVer == 2            \* distinct file contents (0 = file absent)
MaxFaults == 2         \* number of operations the environment lets fail

Calls == 1..MaxCalls
Names == {"f1", "f2"}                 \* regular files of the data directory
SubDir == "sub"                       \* a sub-directory of the data directory
Order == <<"f1", "f2", "sub">>        \* order in which readdir lists entries
Content == 0..MaxVer

VARIABLES
  variant,      \* which BackupManager source is running
  nodeEnv,      \* process.env.NODE_ENV
  repoUrl,      \* process.env.BACKUP_REPO_URL is set
  authorSet,    \* GIT_AUTHOR_NAME and GIT_AUTHOR_EMAIL are set
  gitHandle,    \* this.git is non-null
  isBackingUp,  \* this.isBackingUp
  src,          \* data directory: name -> content
  bak,          \* backup directory working tree: name -> content
  index,        \* git index of the backup repository
  head,         \* tree of the last commit of the backup repository
  writes,       \* number of API writes so far
  faults,       \* number of environment failures so far
  call,         \* one record per backupData invocation
  svariant,     \* which status router source is running
  spc,          \* status handler: 0 = no request, k = awaiting probe k, -1 = answered
  sresults,     \* the handler's `results` object, as a sequence of <<key, result>>
  report,       \* the JSON body sent by the status handler
  sstarted,     \* keys of the targets whose probe function has been called
  selapsed,     \* seconds since the status request arrived
  probe,        \* one probe invocation: transport, timer and promise
  req,          \* one record per vault request
  init,         \* the initialize() calls
  repo,         \* configuration of the backup repository
  cm            \* category manager: file, cache and the calls in flight

bvars == <<variant, nodeEnv, repoUrl, authorSet, gitHandle, isBackingUp,
           src, bak, index, head, writes, faults, call>>
svars == <<svariant, spc, sresults, report, sstarted, selapsed>>
xvars == <<probe, req, init, repo, cm>>
vars == <<variant, nodeEnv, repoUrl, authorSet, gitHandle, isBackingUp,
          src, bak, index, head, writes, faults,
          call, svariant, spc, sresults, report, sstarted, selapsed,
          probe, req, init, repo, cm>>

\* ------------------------------------------------------- result objects
NoResult == [defined |-> FALSE, success |-> FALSE, message |-> "none",
             error |-> "none", pushError |-> "none"]
\* a function that ends without a return statement
Undefined == NoResult
DevDisabled == [defined |-> TRUE, success |-> FALSE, message |-> "dev-disabled",
                error |-> "none", pushError |-> "none"]
InProgress == [defined |-> TRUE, success |-> FALSE, message |-> "in-progress",
               error |-> "none", pushError |-> "none"]
GitNotInitialized == [defined |-> TRUE, success |-> FALSE,
                      message |-> "git-not-initialized",
                      error |-> "none", pushError |-> "none"]
NoChanges == [defined |-> TRUE, success |-> TRUE, message |-> "no-changes",
              error |-> "none", pushError |-> "none"]
Committed == [defined |-> TRUE, success |-> TRUE, message |-> "backup",
              error |-> "none", pushError |-> "none"]
PushFailedResult_Escalated(e) ==
  [defined |-> TRUE, success |-> FALSE, message |-> "none",
   error |-> e, pushError |-> "none"]
PushFailedResult(e) ==
  [defined |-> TRUE, success |-> TRUE, message |-> "backup-push-failed",
   error |-> "none", pushError |-> e]
Failed(e) == [defined |-> TRUE, success |-> FALSE, message |-> "none",
              error |-> e, pushError |-> "none"]

\* what `if (!this.git) return ...` returns
NoGitResult == IF variant = "A" THEN DevDisabled ELSE GitNotInitialized
\* what a run returns after a commit (and push, if any) went through
SuccessResult == IF variant = "A" THEN Committed ELSE Undefined

\* --------------------------------------------------------- call records
IdleCall == [pc |-> "idle", files |-> <<>>, idx |-> 0, buf |-> 0,
             ops |-> {}, copied |-> {}, failed |-> {}, commits |-> 0,
             copyDone |-> FALSE, copyErr |-> "none", fellBack |-> FALSE,
             treeClean |-> "unknown", manualFault |-> FALSE,
             primaryErr |-> "none", manualErr |-> "none", pushErr |-> "none",
             busyAt |-> {}, held |-> FALSE, target |-> "none",
             nth |-> 0, seen |-> {},
             settled |-> "pending", result |-> NoResult]

InFlightPcs == {"readdir", "stat", "read", "write", "status", "add", "config1",
                "config2", "commit", "branch", "push", "manualAwait"}
InFlight(c) == call[c].pc \in InFlightPcs
InFlightSet == {c \in Calls : InFlight(c)}

ProductionMode_Always(env) == env \in {"prod", "dev"}
ProductionMode(env) == env = "prod"

FlagBusy_Ignored(flag) == FALSE
FlagBusy(flag) == flag

\* value of this.isBackingUp when backupData reaches its first await
FlagOnEntry_Late == FALSE
FlagOnEntry == TRUE

\* value of this.isBackingUp after the run's try statement; threw = the body
\* left through an exception
FlagAfter_NoFinally(threw) == threw
FlagAfter(threw) == FALSE

\* directory listing returned by fs.readdir(sourceDir)
Listing == SelectSeq(Order, LAMBDA e : IF e = SubDir THEN TRUE ELSE src[e] # 0)
Exists(e) == IF e = SubDir THEN TRUE ELSE src[e] # 0
IsFile(e) == e \in Names

\* git status().isClean(): no staged, unstaged or untracked change
IsClean == bak = head /\ index = head

\* `return res` inside the try of backupData
Exit(r, res) == [r EXCEPT !.pc = "done", !.settled = "resolved", !.result = res,
                          !.idx = 0, !.buf = 0]

\* outer `catch (error)` of backupData
CatchOuter_Rethrow(r, e) ==
  [r EXCEPT !.pc = "done", !.settled = "rejected", !.idx = 0, !.buf = 0]
CatchOuter(r, e) == Exit(r, Failed(e))

\* the statements of backupData after `await this.copyFiles()`; b is the
\* backup working tree as copyFiles left it
AfterCopy(r, b) ==
  LET r1 == [r EXCEPT !.copyDone = TRUE,
                      !.treeClean = IF b = head /\ index = head
                                    THEN "clean" ELSE "dirty"] IN
  IF ~gitHandle THEN Exit(r1, NoGitResult)
  ELSE [r1 EXCEPT !.pc = "status", !.ops = @ \cup {"status"}]

\* head of the for-loop of copyFiles at position i
CopyLoop(r, i, b) ==
  IF i <= Len(r.files)
  THEN [r EXCEPT !.pc = "stat", !.idx = i, !.ops = @ \cup {"stat"}]
  ELSE AfterCopy([r EXCEPT !.idx = i], b)

\* stat, readFile or writeFile of the current entry rejected
FileError_GitAnyway(r, op) == AfterCopy([r EXCEPT !.copyErr = op], bak)
FileError(r, op) ==
  LET r1 == [r EXCEPT !.failed = @ \cup {r.files[r.idx]}] IN
  IF variant = "A"
  THEN CatchOuter([r1 EXCEPT !.copyErr = op], op)
  ELSE CopyLoop(r1, r.idx + 1, bak)

\* fs.readdir(sourceDir) rejected
ReaddirError(r) ==
  IF variant = "A"
  THEN CatchOuter([r EXCEPT !.copyErr = "readdir"], "readdir")
  ELSE CopyLoop([r EXCEPT !.files = <<>>], 1, bak)

Settle(c, r) ==
  /\ call' = [call EXCEPT ![c] = r]
  /\ isBackingUp' = IF r.pc = "done"
                    THEN FlagAfter(r.copyErr # "none" \/ r.settled = "rejected")
                    ELSE isBackingUp

\* ------------------------------------------------------------------ Init
\* a probe that has not been called
NoProbe == [kind |-> "none", timeout |-> 0, age |-> 0, idle |-> 0,
            phase |-> "none", conn |-> "none", settled |-> FALSE,
            result |-> [status |-> "pending", response_time |-> FALSE,
                        error |-> "none"],
            timedOut |-> FALSE, abortPending |-> FALSE, late |-> 0,
            code |-> 0]
\* a request that has not arrived
NoRequest == [stage |-> "new", status |-> 0, scheduled |-> FALSE, wrote |-> FALSE,
              route |-> "none", label |-> "none"]
\* initialize() has not been called
NoInit == [pc |-> "idle", outcome |-> <<>>, after |-> <<>>]
\* the backup directory before initialize(): no repository, no remote; the
\* simple-git module loads and none of its operations fails; branch is the
\* branch HEAD names (the one `git init` will create, while there is none)
Branches == {"main", "master"}
NoRepo == [exists |-> FALSE, origin |-> FALSE, libLoads |-> TRUE, libFails |-> {},
           branch |-> "master"]

\* ---- category manager (category-manager.js).  A category map is the set
\* of its items: "a" and "b" are categories, "a.s" is subcategory s of a.
Cats == {"a", "b"}
SubItem == "a.s"
Items == Cats \cup {SubItem}
Maps == {m \in SUBSET Items : SubItem \in m => "a" \in m}
\* categories.json is missing or does not parse
Bad == {"corrupt"}
\* the requests being served side by side
Procs == {"p1", "p2"}
\* no request: op is the operation, arg its category or subcategory,
\* content the body of a PUT; buf is the data of the pending read or write, ret tells which
\* function called saveCategories; had, sawPuts and builtAt record what the
\* call saw: whether arg was in the map at the existence test, how many PUTs
\* had completed at the call and when the JSON text was built
NoProc == [op |-> "none", arg |-> "none", content |-> {}, pc |-> "idle",
           buf |-> {}, ret |-> "none",
           result |-> "none", had |-> FALSE, sawPuts |-> 0, builtAt |-> 0]
\* the module after require(): `categoryMap = new Map()`, `loaded = false`;
\* puts, lastPut, stale, lost and ops keep the history: completed PUTs, the
\* last PUT's content, whether a text built before a completed PUT was
\* written after it, whether a write of saveCategories was rejected, and
\* the number of calls made
NoCategories == [file |-> {}, map |-> {}, loaded |-> FALSE,
                 puts |-> 0, lastPut |-> {}, stale |-> FALSE, lost |-> FALSE,
                 ops |-> 0,
                 proc |-> [p \in Procs |-> NoProc]]

ProbeIdle == probe = NoProbe
RequestsIdle == req = [q \in Calls |-> NoRequest]
InitializeIdle == init = NoInit /\ repo = NoRepo
CategoriesIdle == cm = NoCategories
OthersIdle == ProbeIdle /\ RequestsIdle /\ InitializeIdle /\ CategoriesIdle

BackupInit ==
  /\ variant \in {"A", "B"}
  /\ nodeEnv \in {"prod", "dev"}
  /\ repoUrl \in BOOLEAN
  /\ authorSet \in BOOLEAN
  /\ gitHandle \in (IF nodeEnv = "prod" THEN BOOLEAN ELSE {FALSE})
  /\ isBackingUp = FALSE
  /\ src = [n \in Names |-> 1]
  /\ bak = [n \in Names |-> 0]
  /\ index = [n \in Names |-> 0]
  /\ head = [n \in Names |-> 0]
  /\ writes = 0
  /\ faults = 0
  /\ call = [c \in Calls |-> IdleCall]

StatusIdle ==
  /\ svariant = "full"
  /\ spc = 0
  /\ sresults = <<>>
  /\ report = [status |-> "none", services |-> <<>>]
  /\ sstarted = {}
  /\ selapsed = 0

Init == BackupInit /\ StatusIdle /\ OthersIdle

\* --------------------------------------------------------------- actions
\* an API request writes a file of the data directory
MutateSource(n, v) ==
  /\ writes < MaxWrites
  /\ v # src[n]
  /\ src' = [src EXCEPT ![n] = v]
  /\ writes' = writes + 1
  /\ UNCHANGED <<variant, nodeEnv, repoUrl, authorSet, gitHandle, isBackingUp, bak, index, head, call, faults>>
  /\ UNCHANGED <<svars, xvars>>

\* a call that finds isBackingUp true: `return {success: false, message:
\* 'Backup already in progress'}`
Skip_Queued(r) == [r EXCEPT !.pc = "readdir", !.ops = @ \cup {"readdir"}]
Skip(r) == Exit(r, InProgress)

\* value of this.isBackingUp after one of the two early returns, which
\* stand before the try statement
FlagOnSkip_Cleared(flag) == FALSE
FlagOnSkip(flag) == flag

\* backupData() from its first statement to its first await
Enter(c) ==
  /\ call[c].pc = "idle"
  /\ LET r0 == [call[c] EXCEPT !.busyAt = InFlightSet] IN
     IF ~ProductionMode(nodeEnv)
     THEN /\ call' = [call EXCEPT ![c] = Exit(r0, DevDisabled)]
          /\ isBackingUp' = FlagOnSkip(isBackingUp)
     ELSE IF FlagBusy(isBackingUp)
     THEN /\ call' = [call EXCEPT ![c] = Skip(r0)]
          /\ isBackingUp' = FlagOnSkip(isBackingUp)
     ELSE /\ call' = [call EXCEPT ![c] =
                        [r0 EXCEPT !.pc = "readdir", !.held = TRUE,
                                   !.ops = @ \cup {"readdir"}]]
          /\ isBackingUp' = FlagOnEntry
  /\ UNCHANGED <<variant, nodeEnv, repoUrl, authorSet, gitHandle,
                 src, bak, index, head, writes, faults>>
  /\ UNCHANGED <<svars, xvars>>

ReaddirOk(c) ==
  /\ call[c].pc = "readdir"
  /\ Settle(c, CopyLoop([call[c] EXCEPT !.files = Listing], 1, bak))
  /\ UNCHANGED <<variant, nodeEnv, repoUrl, authorSet, gitHandle,
                 src, bak, index, head, writes, faults>>
  /\ UNCHANGED <<svars, xvars>>

ReaddirFail(c) ==
  /\ call[c].pc = "readdir"
  /\ faults < MaxFaults
  /\ faults' = faults + 1
  /\ Settle(c, ReaddirError(call[c]))
  /\ UNCHANGED <<variant, nodeEnv, repoUrl, authorSet, gitHandle,
                 src, bak, index, head, writes>>
  /\ UNCHANGED <<svars, xvars>>

StatOk(c) ==
  /\ call[c].pc = "stat"
  /\ LET r == call[c]
         e == r.files[r.idx] IN
     /\ Exists(e)
     /\ Settle(c, IF IsFile(e)
                  THEN [r EXCEPT !.pc = "read", !.ops = @ \cup {"read"}]
                  ELSE CopyLoop(r, r.idx + 1, bak))
  /\ UNCHANGED <<variant, nodeEnv, repoUrl, authorSet, gitHandle,
                 src, bak, index, head, writes, faults>>
  /\ UNCHANGED <<svars, xvars>>

ReadOk(c) ==
  /\ call[c].pc = "read"
  /\ LET r == call[c]
         e == r.files[r.idx] IN
     /\ Exists(e)
     /\ Settle(c, [r EXCEPT !.pc = "write", !.buf = src[e],
                            !.ops = @ \cup {"write"}])
  /\ UNCHANGED <<variant, nodeEnv, repoUrl, authorSet, gitHandle,
                 src, bak, index, head, writes, faults>>
  /\ UNCHANGED <<svars, xvars>>

\* the backup directory after `fs.writeFile(backupPath, content)`: the one
\* file is created or overwritten, nothing else is touched
CopyTarget_Mirror(b, e, buf) ==
  [n \in Names |-> IF n = e THEN buf ELSE IF src[n] = 0 THEN 0 ELSE b[n]]
CopyTarget(b, e, buf) == [b EXCEPT ![e] = buf]

WriteOk(c) ==
  /\ call[c].pc = "write"
  /\ LET r == call[c]
         e == r.files[r.idx] IN
     /\ bak' = CopyTarget(bak, e, r.buf)
     /\ Settle(c, CopyLoop([r EXCEPT !.copied = @ \cup {e}], r.idx + 1, bak'))
  /\ UNCHANGED <<variant, nodeEnv, repoUrl, authorSet, gitHandle,
                 src, index, head, writes, faults>>
  /\ UNCHANGED <<svars, xvars>>

\* stat and readFile reject when the entry has been removed meanwhile
MustFail(r) == r.pc \in {"stat", "read"} /\ ~Exists(r.files[r.idx])

\* stat, readFile or writeFile of the current entry rejects
FileFail(c) ==
  /\ call[c].pc \in {"stat", "read", "write"}
  /\ MustFail(call[c]) \/ faults < MaxFaults
  /\ faults' = IF MustFail(call[c]) THEN faults ELSE faults + 1
  /\ Settle(c, FileError(call[c], call[c].pc))
  /\ UNCHANGED <<variant, nodeEnv, repoUrl, authorSet, gitHandle,
                 src, bak, index, head, writes>>
  /\ UNCHANGED <<svars, xvars>>

\* ---- primary (simple-git) sequence
StatusOk(c) ==
  /\ call[c].pc = "status"
  /\ Settle(c, IF IsClean
               THEN Exit(call[c], NoChanges)
               ELSE [call[c] EXCEPT !.pc = "add", !.ops = @ \cup {"add"}])
  /\ UNCHANGED <<variant, nodeEnv, repoUrl, authorSet, gitHandle,
                 src, bak, index, head, writes, faults>>
  /\ UNCHANGED <<svars, xvars>>

AddOk(c) ==
  /\ call[c].pc = "add"
  /\ index' = bak
  /\ Settle(c, IF authorSet
               THEN [call[c] EXCEPT !.pc = "config1", !.ops = @ \cup {"config"}]
               ELSE [call[c] EXCEPT !.pc = "commit", !.ops = @ \cup {"commit"}])
  /\ UNCHANGED <<variant, nodeEnv, repoUrl, authorSet, gitHandle,
                 src, bak, head, writes, faults>>
  /\ UNCHANGED <<svars, xvars>>

\* addConfig('user.name') and then addConfig('user.email') resolve
ConfigOk(c) ==
  /\ call[c].pc \in {"config1", "config2"}
  /\ Settle(c, IF call[c].pc = "config1"
               THEN [call[c] EXCEPT !.pc = "config2"]
               ELSE [call[c] EXCEPT !.pc = "commit", !.ops = @ \cup {"commit"}])
  /\ UNCHANGED <<variant, nodeEnv, repoUrl, authorSet, gitHandle,
                 src, bak, index, head, writes, faults>>
  /\ UNCHANGED <<svars, xvars>>

CommitOk(c) ==
  /\ call[c].pc = "commit"
  /\ head' = index
  /\ LET r == [call[c] EXCEPT !.commits = IF index # head THEN @ + 1 ELSE @] IN
     Settle(c, IF repoUrl
               THEN [r EXCEPT !.pc = "branch", !.ops = @ \cup {"branch"}]
               ELSE Exit(r, SuccessResult))
  /\ UNCHANGED <<variant, nodeEnv, repoUrl, authorSet, gitHandle,
                 src, bak, index, writes, faults>>
  /\ UNCHANGED <<svars, xvars>>

\* `const currentBranch = status.current || 'master'`; cur is "" when the
\* status carries no branch name
BranchToPush_Fixed(cur) == "main"
BranchToPush(cur) == IF cur = "" THEN "master" ELSE cur

\* the second git.status() (branch lookup) resolves and the push to the
\* branch it reports is issued
BranchOk(c) ==
  /\ call[c].pc = "branch"
  /\ Settle(c, [call[c] EXCEPT !.pc = "push", !.ops = @ \cup {"push"},
                               !.target = BranchToPush(repo.branch)])
  /\ UNCHANGED <<variant, nodeEnv, repoUrl, authorSet, gitHandle,
                 src, bak, index, head, writes, faults>>
  /\ UNCHANGED <<svars, xvars>>

PushOk(c) ==
  /\ call[c].pc = "push"
  /\ Settle(c, Exit(call[c], SuccessResult))
  /\ UNCHANGED <<variant, nodeEnv, repoUrl, authorSet, gitHandle,
                 src, bak, index, head, writes, faults>>
  /\ UNCHANGED <<svars, xvars>>

\* the branch lookup or the push rejects: inner `catch (pushError)`
PushFail(c) ==
  /\ call[c].pc \in {"branch", "push"}
  /\ faults < MaxFaults
  /\ faults' = faults + 1
  /\ Settle(c, Exit([call[c] EXCEPT !.pushErr = call[c].pc],
                     PushFailedResult(call[c].pc)))
  /\ UNCHANGED <<variant, nodeEnv, repoUrl, authorSet, gitHandle,
                 src, bak, index, head, writes>>
  /\ UNCHANGED <<svars, xvars>>

\* ---- backupWithManualCommands: a sequence of execSync calls, run without
\* suspension.  addOk, commitOk, branchOk, pushOk: whether the environment
\* lets the command succeed.  `git commit` with nothing staged exits
\* non-zero whatever the environment.
Manual(r, addOk, commitOk, branchOk, pushOk) ==
  LET r0 == [r EXCEPT !.pc = "manualAwait", !.fellBack = TRUE, !.primaryErr = r.pc,
                      !.ops = @ \cup {"m_add"}]
      nothing == bak = head
  IN
  IF ~addOk
  THEN [r |-> [r0 EXCEPT !.result = Failed("m_add"), !.manualErr = "m_add",
                         !.manualFault = TRUE],
        index |-> index, head |-> head]
  ELSE IF nothing \/ ~commitOk
  THEN [r |-> [r0 EXCEPT !.result = Failed("m_commit"),
                         !.ops = @ \cup {"m_commit"},
                         !.manualErr = "m_commit",
                         !.manualFault = ~nothing],
        index |-> bak, head |-> head]
  ELSE LET r1 == [r0 EXCEPT !.ops = @ \cup {"m_commit"}, !.commits = @ + 1] IN
       [index |-> bak, head |-> bak,
        r |-> IF ~repoUrl THEN [r1 EXCEPT !.result = SuccessResult]
              ELSE IF ~branchOk
              THEN [r1 EXCEPT !.result = PushFailedResult("m_branch"),
                              !.ops = @ \cup {"m_branch"},
                              !.pushErr = "m_branch"]
              ELSE IF ~pushOk
              THEN [r1 EXCEPT !.result = PushFailedResult("m_push"),
                              !.ops = @ \cup {"m_branch", "m_push"},
                              !.target = repo.branch,
                              !.pushErr = "m_push"]
              ELSE [r1 EXCEPT !.result = SuccessResult,
                              !.target = repo.branch,
                              !.ops = @ \cup {"m_branch", "m_push"}]]

\* the awaits whose rejection `catch (gitError)` receives: those of the
\* primary sequence up to the commit; the branch lookup and the push have a
\* try statement of their own
PrimarySteps_WithPush ==
  {"status", "add", "config1", "config2", "commit", "branch", "push"}
PrimarySteps == {"status", "add", "config1", "config2", "commit"}

\* a step of the primary sequence other than the push rejects:
\* `catch (gitError)` calls backupWithManualCommands
PrimaryFail(c) ==
  /\ call[c].pc \in PrimarySteps
  /\ \E addOk, commitOk, branchOk, pushOk \in BOOLEAN :
       LET m == Manual(call[c], addOk, commitOk, branchOk, pushOk) IN
       /\ faults + 1 + (IF m.r.manualFault \/ m.r.pushErr # "none" THEN 1 ELSE 0)
            <= MaxFaults
       /\ faults' = faults + 1
                    + (IF m.r.manualFault \/ m.r.pushErr # "none" THEN 1 ELSE 0)
       /\ call' = [call EXCEPT ![c] = m.r]
       /\ index' = m.index
       /\ head' = m.head
  /\ UNCHANGED <<variant, nodeEnv, repoUrl, authorSet, gitHandle, isBackingUp, src, bak, writes>>
  /\ UNCHANGED <<svars, xvars>>

\* `return await this.backupWithManualCommands(...)` resumes: return, finally
ManualReturn(c) ==
  /\ call[c].pc = "manualAwait"
  /\ Settle(c, [call[c] EXCEPT !.pc = "done", !.settled = "resolved"])
  /\ UNCHANGED <<variant, nodeEnv, repoUrl, authorSet, gitHandle,
                 src, bak, index, head, writes, faults>>
  /\ UNCHANGED <<svars, xvars>>

Next ==
  \/ \E n \in Names, v \in Content : MutateSource(n, v)
  \/ \E c \in Calls : Enter(c)
  \/ \E c \in Calls : ReaddirOk(c)
  \/ \E c \in Calls : ReaddirFail(c)
  \/ \E c \in Calls : StatOk(c)
  \/ \E c \in Calls : ReadOk(c)
  \/ \E c \in Calls : WriteOk(c)
  \/ \E c \in Calls : FileFail(c)
  \/ \E c \in Calls : StatusOk(c)
  \/ \E c \in Calls : AddOk(c)
  \/ \E c \in Calls : ConfigOk(c)
  \/ \E c \in Calls : CommitOk(c)
  \/ \E c \in Calls : BranchOk(c)
  \/ \E c \in Calls : PushOk(c)
  \/ \E c \in Calls : PushFail(c)
  \/ \E c \in Calls : PrimaryFail(c)
  \/ \E c \in Calls : ManualReturn(c)

Spec == Init /\ [][Next]_vars

\* ------------------------------------------------------ status aggregator
\* keys of the `services` constant, in declaration order
Targets(v) ==
  IF v = "full"
  THEN <<"sumeetsaini_com", "arcanecodex_dev", "mail", "stats",
         "laptop_tunnel", "bucketbot">>
  ELSE <<"sumeetsaini_com", "arcanecodex_dev", "mail", "stats">>

Kind(t) == IF t = "laptop_tunnel" THEN "tcp"
           ELSE IF t = "bucketbot" THEN "container" ELSE "http"

Healthy == [status |-> "healthy", response_time |-> TRUE, error |-> "none"]
Unhealthy(e) == [status |-> "unhealthy", response_time |-> FALSE, error |-> e]
\* checkContainerStatus when the container exists and is not running
Stopped == [status |-> "unhealthy", response_time |-> TRUE, error |-> "none"]

\* a probe promise that rejects (no probe of the source does)
Rejected == [status |-> "rejected", response_time |-> FALSE, error |-> "none"]

\* `catch (error)` of checkContainerStatus
ContainerCatch_Rethrow == Rejected
ContainerCatch == Unhealthy("Container not found or not running")

\* results a probe of each kind can resolve with
HttpOutcomes == {Healthy, Unhealthy("ECONNREFUSED"), Unhealthy("TIMEOUT")}
TcpOutcomes == {Healthy, Unhealthy("ECONNREFUSED"), Unhealthy("TIMEOUT")}
ContainerOutcomes == {Healthy, Stopped, ContainerCatch}

\* Object.values(results).every(s => s.status === 'healthy') ? ... : ...
OverallStatus_Some(res) ==
  IF \E i \in 1..Len(res) : res[i][2].status = "healthy"
  THEN "healthy" ELSE "degraded"
OverallStatus(res) ==
  IF \A i \in 1..Len(res) : res[i][2].status = "healthy"
  THEN "healthy" ELSE "degraded"

\* configured timeout of a target, in seconds
Timeout(t) == IF t = "mail" THEN 30
              ELSE IF t \in {"laptop_tunnel", "bucketbot"} THEN 3 ELSE 5

\* seconds a probe of target t can take to resolve with result out: a
\* timeout takes the whole timeout, any other result arrives before it;
\* the container probe is a local call
Durations(t, out) ==
  IF Kind(t) = "container" THEN {0}
  ELSE IF out.error = "TIMEOUT" THEN {Timeout(t)}
  ELSE {0, Timeout(t) - 1}

\* results[key] = out: a new key is appended to the object's key order, an
\* existing key keeps its place
StoreResult_Front(res, key, out) == <<<<key, out>>>> \o res
StoreResult(res, key, out) ==
  IF \E i \in 1..Len(res) : res[i][1] = key
  THEN [i \in 1..Len(res) |-> IF res[i][1] = key THEN <<key, out>> ELSE res[i]]
  ELSE Append(res, <<key, out>>)

\* GET /status arrives: the self entry is stored and the first probe started
StatusRequest ==
  /\ spc = 0
  /\ sresults' = StoreResult(<<>>, "vulkan", Healthy)
  /\ spc' = 1
  /\ sstarted' = {Targets(svariant)[1]}
  /\ UNCHANGED <<svariant, report, selapsed>>
  /\ UNCHANGED <<bvars, xvars>>

\* the awaited probe settled with out after d seconds: the result is stored
\* under the target's key, then the next probe is started or the report is
\* sent with status 200; a rejected await leaves the handler through an
\* exception (spc = -2) and nothing is sent
ProbeSettled(out, d) ==
  LET t == Targets(svariant)[spc]
      res == StoreResult(sresults, t, out) IN
  /\ selapsed' = selapsed + d
  /\ IF out.status = "rejected"
     THEN /\ spc' = -2
          /\ UNCHANGED <<sresults, report, sstarted>>
     ELSE /\ sresults' = res
          /\ IF spc < Len(Targets(svariant))
             THEN /\ spc' = spc + 1
                  /\ sstarted' = sstarted \cup {Targets(svariant)[spc + 1]}
                  /\ UNCHANGED report
             ELSE /\ spc' = -1
                  /\ report' = [status |-> OverallStatus(res), services |-> res]
                  /\ UNCHANGED sstarted
  /\ UNCHANGED svariant
  /\ UNCHANGED <<bvars, xvars>>

HttpProbeSettles ==
  /\ spc >= 1
  /\ Kind(Targets(svariant)[spc]) = "http"
  /\ \E out \in HttpOutcomes :
       \E d \in Durations(Targets(svariant)[spc], out) : ProbeSettled(out, d)

TcpProbeSettles ==
  /\ spc >= 1
  /\ Kind(Targets(svariant)[spc]) = "tcp"
  /\ \E out \in TcpOutcomes :
       \E d \in Durations(Targets(svariant)[spc], out) : ProbeSettled(out, d)

ContainerProbeSettles ==
  /\ spc >= 1
  /\ Kind(Targets(svariant)[spc]) = "container"
  /\ \E out \in ContainerOutcomes :
       \E d \in Durations(Targets(svariant)[spc], out) : ProbeSettled(out, d)

\* the backup manager at rest, outside production mode
BackupIdle ==
  /\ variant = "A"
  /\ nodeEnv = "dev"
  /\ repoUrl = FALSE
  /\ authorSet = FALSE
  /\ gitHandle = FALSE
  /\ isBackingUp = FALSE
  /\ src = [n \in Names |-> 1]
  /\ bak = [n \in Names |-> 0]
  /\ index = [n \in Names |-> 0]
  /\ head = [n \in Names |-> 0]
  /\ writes = 0
  /\ faults = 0
  /\ call = [c \in Calls |-> IdleCall]

InitStatus ==
  /\ BackupIdle
  /\ OthersIdle
  /\ svariant \in {"full", "http"}
  /\ spc = 0
  /\ sresults = <<>>
  /\ report = [status |-> "none", services |-> <<>>]
  /\ sstarted = {}
  /\ selapsed = 0

NextStatus ==
  \/ StatusRequest
  \/ HttpProbeSettles
  \/ TcpProbeSettles
  \/ ContainerProbeSettles

SpecStatus == InitStatus /\ [][NextStatus]_vars

\* ================================================================ claims
Done(c) == call[c].pc = "done"
\* outcome of a result, without the error detail
Outcome(res) == <<res.defined, res.success, res.message>>

\* C1: in every reachable state at most one backupData call is between
\* setting isBackingUp and clearing it.
C1_MutualExclusion == Cardinality(InFlightSet) <= 1
\* a second call arrived while a first one was running
C1_Witness ==
  \E c, d \in Calls : c # d /\ InFlight(c) /\ Done(d) /\ c \in call[d].busyAt

\* C2: whenever no backupData call is in flight isBackingUp is false, and
\* the step in which a call that set the flag leaves backupData clears it.
C2_NoPermanentLock ==
  /\ [](InFlightSet = {} => ~isBackingUp)
  /\ [][\A c \in Calls : (InFlight(c) /\ call'[c].pc = "done") => ~isBackingUp']_vars
\* a run that held the flag ended through a thrown error and the flag is clear
C2_Witness ==
  \E c \in Calls : Done(c) /\ call[c].held /\ call[c].copyErr # "none"
                   /\ InFlightSet = {} /\ ~isBackingUp

\* C3: when a call d arrives while call c is suspended in Copy or Sync, then
\* once both have settled c is the only one that executed, d returned
\* 'Backup already in progress' without doing anything, and isBackingUp is
\* false (if no further call is running).
C3_OneRunOneSkip ==
  \A c, d \in Calls :
    (c # d /\ Done(c) /\ Done(d) /\ c \in call[d].busyAt) =>
      /\ call[d].result = InProgress
      /\ call[d].ops = {} /\ ~call[d].held
      /\ call[c].held /\ "readdir" \in call[c].ops
      /\ (InFlightSet = {} => ~isBackingUp)
C3_Witness ==
  \E c, d \in Calls : /\ c # d /\ Done(c) /\ Done(d) /\ c \in call[d].busyAt
                      /\ call[c].commits = 1 /\ InFlightSet = {}

\* C4 as stated: every error thrown by copyFiles, by the primary git
\* sequence or by the fallback ends in a result with success=false that
\* carries an error message (backup-manager.js).
C4_Original ==
  \A c \in Calls :
    (variant = "A" /\ Done(c)
       /\ (call[c].copyErr # "none" \/ call[c].primaryErr # "none"
           \/ call[c].manualErr # "none")) =>
      /\ call[c].settled = "resolved"
      /\ call[c].result.defined /\ ~call[c].result.success
      /\ call[c].result.error # "none"

\* C4 amended: backupData never rejects; an error thrown by copyFiles or by
\* the add/commit commands of the fallback becomes a result with
\* success=false carrying that error; an error of the primary sequence
\* (other than the push) is swallowed and the fallback's result is returned.
C4_NeverRejects ==
  \A c \in Calls :
    Done(c) =>
      /\ call[c].settled = "resolved"
      /\ call[c].copyErr # "none" => call[c].result = Failed(call[c].copyErr)
      /\ call[c].manualErr # "none" => call[c].result = Failed(call[c].manualErr)
      /\ call[c].primaryErr # "none" =>
           /\ call[c].fellBack
           /\ call[c].result.error \in {"none", "m_add", "m_commit"}
\* one run ended by an error of copyFiles, another one by a primary error
\* followed by a fallback that went through
C4_Witness ==
  \E c, d \in Calls :
    /\ Done(c) /\ call[c].copyErr # "none"
    /\ Done(d) /\ call[d].primaryErr # "none" /\ call[d].manualErr = "none"

\* C5: outside production mode backupData returns the skipped-disabled
\* result at once: no directory read, no file copied, no git operation, and
\* isBackingUp stays as it was.
C5_DisabledNoIO ==
  nodeEnv # "prod" =>
    /\ ~isBackingUp
    /\ bak = [n \in Names |-> 0] /\ index = bak /\ head = bak
    /\ \A c \in Calls :
         /\ call[c].pc \in {"idle", "done"}
         /\ Done(c) => /\ call[c].result = DevDisabled
                       /\ call[c].ops = {} /\ ~call[c].held
C5_Witness == nodeEnv # "prod" /\ \E c \in Calls : Done(c)

\* C6: a run whose push (or the branch lookup before it) failed, on the
\* primary or the fallback path, returns success=true, marked push-failed,
\* with the push error attached.
C6_PushFailureIsSuccess ==
  \A c \in Calls :
    (Done(c) /\ call[c].pushErr # "none") =>
      /\ call[c].result.defined
      /\ call[c].result.success
      /\ call[c].result.message = "backup-push-failed"
      /\ call[c].result.pushError = call[c].pushErr
C6_Witness ==
  \E c \in Calls : Done(c) /\ call[c].pushErr = "m_push" /\ call[c].commits = 1

\* C7: a run that reaches the Sync stage with a clean working tree (and meets
\* no failing fallback command) creates no commit, attempts no push and
\* returns no-changes, also when the primary status query failed.
C7_CleanTreeNoChanges ==
  \A c \in Calls :
    (Done(c) /\ call[c].treeClean = "clean" /\ "status" \in call[c].ops
       /\ ~call[c].manualFault) =>
      /\ call[c].commits = 0
      /\ call[c].ops \cap {"push", "m_push"} = {}
      /\ call[c].result = NoChanges

\* the outcome the primary path of backup-manager.js returns for a tree
\* state and a push result
PrimaryOutcome(clean, pushFailed) ==
  IF clean = "clean" THEN Outcome(NoChanges)
  ELSE IF pushFailed THEN Outcome(PushFailedResult("push"))
  ELSE Outcome(Committed)

\* C8: a run that took the fallback (none of whose commands was made to fail
\* by the environment, the push apart) returns the outcome the primary path
\* returns for the same repository state (backup-manager.js).
C8_FallbackEquivalent ==
  \A c \in Calls :
    (variant = "A" /\ Done(c) /\ call[c].fellBack /\ ~call[c].manualFault) =>
      Outcome(call[c].result)
        = PrimaryOutcome(call[c].treeClean, call[c].pushErr # "none")

\* C9: when stat, read or write fails for an entry, copyFiles does not throw
\* and every other regular file of the listing is copied.
C9_CopyToleratesFailures ==
  \A c \in Calls :
    ((call[c].copyDone \/ Done(c)) /\ call[c].failed # {}) =>
      /\ call[c].copyErr = "none"
      /\ \A i \in 1..Len(call[c].files) :
           (IsFile(call[c].files[i]) /\ call[c].files[i] \notin call[c].failed)
             => call[c].files[i] \in call[c].copied

\* C10: the report's overall status is 'healthy' iff every entry of the
\* services mapping, self entry included, is healthy, and 'degraded' otherwise.
C10_OverallStatus ==
  spc = -1 =>
    /\ report.status \in {"healthy", "degraded"}
    /\ Len(report.services) = Len(Targets(svariant)) + 1
    /\ report.status = "healthy"
         <=> \A i \in 1..Len(report.services) :
               report.services[i][2].status = "healthy"
\* a report with exactly one unhealthy entry
C10_Witness ==
  /\ spc = -1
  /\ Cardinality({i \in 1..Len(report.services) :
                    report.services[i][2].status # "healthy"}) = 1
  /\ report.status = "degraded"

\* the keys of all configured targets of the router
AllTargets == {Targets(svariant)[i] : i \in 1..Len(Targets(svariant))}
\* the largest configured timeout of the router, in seconds
SlowestTimeout ==
  CHOOSE m \in {Timeout(t) : t \in AllTargets} :
    \A t \in AllTargets : Timeout(t) <= m

\* C11: within one status request every configured probe is started without
\* waiting for another probe to finish, and the request completes no later
\* than the largest single timeout plus a margin of one second (not the sum
\* of the timeouts).
C11_ProbesConcurrent ==
  /\ spc >= 1 => sstarted = AllTargets
  /\ spc = -1 => selapsed <= SlowestTimeout + 1

\* keys of a results object, in its key order
Keys(res) == [i \in 1..Len(res) |-> res[i][1]]

\* C18: every status report holds the self entry, always healthy, and exactly
\* one entry per configured target, and the order of the services mapping is
\* the configuration order whatever the probes resolved with.
C18_ReportOrder ==
  /\ spc = -1 =>
       /\ Keys(report.services) = <<"vulkan">> \o Targets(svariant)
       /\ report.services[1][2].status = "healthy"
  /\ spc >= 1 =>
       Keys(sresults) = <<"vulkan">> \o SubSeq(Targets(svariant), 1, spc - 1)
\* a report of the six-target router in which the last two probes failed
C18_Witness ==
  /\ spc = -1
  /\ svariant = "full"
  /\ report.services[6][2].status = "unhealthy"
  /\ report.services[7][2].status = "unhealthy"
  /\ report.services[2][2].status = "healthy"

\* C14: the status request completes with a 200 JSON report for every
\* combination of probe outcomes: a connection error, a timeout or an
\* unavailable container runtime appears only as an unhealthy entry, the
\* handler never fails, and the step that settles the last probe sends the
\* report.
C14_AlwaysReports ==
  /\ [](/\ spc # -2
        /\ \A i \in 1..Len(sresults) :
             /\ sresults[i][2].status \in {"healthy", "unhealthy"}
             /\ sresults[i][2].error # "none" => sresults[i][2].status = "unhealthy"
        /\ spc = -1 => /\ report.services = sresults
                       /\ report.status \in {"healthy", "degraded"})
  /\ [][spc = Len(Targets(svariant)) => spc' = -1]_vars
\* a report sent after a connection error, a timeout and an unavailable
\* container runtime
C14_Witness ==
  /\ spc = -1
  /\ \E i, j, k \in 1..Len(report.services) :
       /\ report.services[i][2].error = "ECONNREFUSED"
       /\ report.services[j][2].error = "TIMEOUT"
       /\ report.services[k][2].error = "Container not found or not running"
  /\ report.status = "degraded"

\* ------------------------------------------------------- a single probe
\* One call of checkService, checkTCPPort or checkContainerStatus.  Time is
\* counted in ticks; the configured timeout is probe.timeout ticks.  The
\* `timeout` option of http.request and socket.setTimeout arm an inactivity
\* timer on the socket: it restarts on every socket activity and raises
\* 'timeout' once the socket has been idle for the timeout.
ProbeTicks == 2
MaxAge == ProbeTicks + 3

\* resolve(out) of the probe's promise: only the first call settles it
Resolve_LastWins(p, out) == [p EXCEPT !.settled = TRUE, !.result = out]
Resolve(p, out) ==
  IF p.settled THEN [p EXCEPT !.late = 1]
  ELSE [p EXCEPT !.settled = TRUE, !.result = out]

\* the inactivity timer of the probe's socket is due
TimerDue(p) ==
  /\ p.kind \in {"http", "tcp"}
  /\ p.conn = "open"
  /\ p.idle >= p.timeout

OnlyProbe == UNCHANGED <<bvars, svars, req, init, repo, cm>>

\* the handler calls a probe function
ProbeStart(k, T) ==
  /\ probe = NoProbe
  /\ probe' = [NoProbe EXCEPT !.kind = k,
                 !.timeout = IF k = "container" THEN 0 ELSE T,
                 !.phase = IF k = "container" THEN "inspecting" ELSE "connecting",
                 !.conn = IF k = "container" THEN "none" ELSE "open"]
  /\ OnlyProbe

\* one tick passes; a due timer fires before more time passes
Tick ==
  /\ probe.kind # "none"
  /\ probe.age < MaxAge
  /\ ~TimerDue(probe)
  /\ probe' = [probe EXCEPT !.age = @ + 1, !.idle = @ + 1]
  /\ OnlyProbe

\* HTTP status codes a target can answer with
StatusCodes == {200, 404, 500}

\* the response headers arrive with status code sc: the request callback
\* adds the res listeners and looks at nothing else
HttpResponse(sc) ==
  /\ probe.kind = "http" /\ probe.conn = "open" /\ probe.phase = "connecting"
  /\ probe' = [probe EXCEPT !.phase = "body", !.idle = 0, !.code = sc]
  /\ OnlyProbe

\* res 'data': a chunk of the body arrives and is dropped
HttpData ==
  /\ probe.kind = "http" /\ probe.conn = "open" /\ probe.phase = "body"
  /\ probe' = [probe EXCEPT !.idle = 0]
  /\ OnlyProbe

\* what the 'end' handler of the response resolves with
EndResult_StatusChecked(sc) == IF sc < 400 THEN Healthy ELSE Unhealthy("HTTP")
EndResult(sc) == Healthy

\* res 'end': the probe resolves; the request is complete and its socket
\* goes back to the default agent, which closes it or keeps it alive for
\* reuse (keep)
HttpEnd(keep) ==
  /\ probe.kind = "http" /\ probe.conn = "open" /\ probe.phase = "body"
  /\ probe' = Resolve([probe EXCEPT !.phase = "ended",
                         !.conn = IF keep THEN "pooled" ELSE "closed"],
                      EndResult(probe.code))
  /\ OnlyProbe

\* req 'error' raised by the transport
HttpError ==
  /\ probe.kind = "http" /\ probe.conn = "open"
  /\ probe' = Resolve([probe EXCEPT !.phase = "failed", !.conn = "closed"],
                      Unhealthy("ECONNREFUSED"))
  /\ OnlyProbe

\* req 'timeout': req.destroy(), then resolve TIMEOUT; destroying a request
\* that has no response yet raises req 'error' in a later turn
HttpTimeout ==
  /\ probe.kind = "http" /\ TimerDue(probe)
  /\ probe' = Resolve([probe EXCEPT !.conn = "destroyed", !.timedOut = TRUE,
                         !.abortPending = (probe.phase = "connecting")],
                      Unhealthy("TIMEOUT"))
  /\ OnlyProbe

\* req 'error' raised by req.destroy()
HttpAbortError ==
  /\ probe.kind = "http" /\ probe.abortPending
  /\ probe' = Resolve([probe EXCEPT !.abortPending = FALSE, !.phase = "failed"],
                      Unhealthy("ECONNRESET"))
  /\ OnlyProbe

\* res 'end' that was already queued when the request was destroyed
HttpLateEnd ==
  /\ probe.kind = "http" /\ probe.conn = "destroyed" /\ probe.phase = "body"
  /\ probe' = Resolve([probe EXCEPT !.phase = "ended"], Healthy)
  /\ OnlyProbe

\* the socket of checkTCPPort after its connect callback has run
SocketAfterConnect_Left == "open"
SocketAfterConnect == "destroyed"

\* the connect callback: resolve healthy, socket.destroy()
TcpConnect ==
  /\ probe.kind = "tcp" /\ probe.conn = "open" /\ probe.phase = "connecting"
  /\ probe' = Resolve([probe EXCEPT !.phase = "connected",
                         !.conn = SocketAfterConnect],
                      Healthy)
  /\ OnlyProbe

\* socket 'error'
TcpError ==
  /\ probe.kind = "tcp" /\ probe.conn = "open" /\ probe.phase = "connecting"
  /\ probe' = Resolve([probe EXCEPT !.phase = "failed", !.conn = "closed"],
                      Unhealthy("ECONNREFUSED"))
  /\ OnlyProbe

\* socket 'timeout': resolve TIMEOUT, socket.destroy()
TcpTimeout ==
  /\ probe.kind = "tcp" /\ TimerDue(probe)
  /\ probe' = Resolve([probe EXCEPT !.conn = "destroyed", !.timedOut = TRUE],
                      Unhealthy("TIMEOUT"))
  /\ OnlyProbe

\* container.inspect() settles (or require('dockerode') throws)
ContainerInspect ==
  /\ probe.kind = "container" /\ probe.phase = "inspecting"
  /\ \E out \in ContainerOutcomes :
       probe' = IF out.status = "rejected"
                THEN [probe EXCEPT !.phase = "done", !.settled = TRUE, !.result = out]
                ELSE Resolve([probe EXCEPT !.phase = "done"], out)
  /\ OnlyProbe

InitProbe == BackupIdle /\ StatusIdle /\ OthersIdle

NextProbe ==
  \/ \E k \in {"http", "tcp", "container"} : \E T \in 1..ProbeTicks : ProbeStart(k, T)
  \/ Tick
  \/ \E sc \in StatusCodes : HttpResponse(sc)
  \/ HttpData
  \/ \E keep \in BOOLEAN : HttpEnd(keep)
  \/ HttpError
  \/ HttpTimeout
  \/ HttpAbortError
  \/ HttpLateEnd
  \/ TcpConnect
  \/ TcpError
  \/ TcpTimeout
  \/ ContainerInspect

SpecProbe == InitProbe /\ [][NextProbe]_vars

\* C12: every probe invocation resolves with a result and never rejects, and
\* an HTTP or TCP probe resolves no later than its configured timeout plus a
\* margin of one tick after it started, whatever the transport does.
C12_ProbeBounded ==
  /\ probe.settled => probe.result.status \in {"healthy", "unhealthy"}
  /\ (probe.kind \in {"http", "tcp"} /\ ~probe.settled)
       => probe.age <= probe.timeout + 1

\* C13: when an HTTP probe's timeout fires before a result was produced the
\* request is aborted and the result is unhealthy with error TIMEOUT; the
\* error raised by the abort, or a later response event, never replaces it.
C13_TimeoutResultKept ==
  (probe.kind = "http" /\ probe.timedOut)
    => /\ probe.conn = "destroyed"
       /\ probe.settled
       /\ probe.result = Unhealthy("TIMEOUT")
\* the timeout fired and the error of the abort has been delivered
C13_Witness ==
  /\ probe.kind = "http"
  /\ probe.timedOut
  /\ ~probe.abortPending
  /\ probe.phase = "failed"
  /\ probe.late = 1
  /\ probe.result = Unhealthy("TIMEOUT")

\* C19: backupData always resolves to a structured result that identifies one
\* of the outcomes success, success-with-push-failure, no-changes,
\* skipped-concurrent, skipped-disabled or failed, and a run whose commit
\* succeeded resolves to a result with success=true.
C19_StructuredResult ==
  \A c \in Calls :
    Done(c) =>
      /\ call[c].result.defined
      /\ call[c].commits >= 1 => call[c].result.success

\* C20: in backupData the production-mode test, the flag test and the flag
\* assignment are one uninterrupted step: the step in which a call reads
\* isBackingUp as false leaves it true, the flag is true as long as that call
\* is in flight, and a call that arrives meanwhile never reads false.
C20_TestAndSetAtomic ==
  /\ [][\A c \in Calls :
          (call[c].pc = "idle" /\ call'[c].pc # "idle"
             /\ nodeEnv = "prod" /\ ~isBackingUp)
            => (isBackingUp' /\ call'[c].held /\ call'[c].busyAt = {})]_vars
  /\ [](\A c \in Calls : InFlight(c) => isBackingUp)
  /\ [](\A c, d \in Calls : c \in call[d].busyAt => ~call[d].held)
\* one call has just passed the tests and set the flag, the other has not arrived
C20_Witness ==
  \E c, d \in Calls :
    /\ c # d
    /\ call[c].pc = "readdir" /\ call[c].held /\ isBackingUp
    /\ call[d].pc = "idle"

\* ------------------------------------------- vault requests and the trigger
\* POST /vault/spend: backupMiddleware('POST /spend'), apiKeyAuth, handler.
\* Request q uses backupData call q.  The router and the middleware read
\* NODE_ENV from the process environment; the start-up validation of app.js
\* admits 'prod' and 'dev', the middleware itself tests for 'production'.
Environments == {"prod", "dev", "production"}

\* the mode test of backupMiddleware
TriggerMode(env) == env = "production"

\* the routes modelled, as app.js mounts them
VaultSpend == "POST /vault/spend"
WellPost == "POST /well"

\* the endpoint name of the backupMiddleware a route mounts, "none" when
\* it mounts none
Mounted(route) == IF route = VaultSpend THEN "POST /spend" ELSE "none"

\* the request passes the middlewares mounted before apiKeyAuth
Through(route, r) ==
  IF Mounted(route) # "none" /\ TriggerMode(nodeEnv)
  THEN [r EXCEPT !.scheduled = TRUE, !.label = Mounted(route)]
  ELSE r

OnlyRequest(q) ==
  /\ UNCHANGED <<variant, nodeEnv, repoUrl, authorSet, gitHandle, isBackingUp,
                 bak, index, head, writes, faults, call>>
  /\ UNCHANGED <<svars, probe, init, repo, cm>>

Respond(q, code) == [req[q] EXCEPT !.stage = "responded", !.status = code]

\* the request arrives: the middleware schedules the trigger with
\* setImmediate and calls next(), apiKeyAuth checks the key, the handler runs
\* to its first await
Arrive(q, auth, body) ==
  /\ req[q].stage = "new"
  /\ LET r == Through(VaultSpend, [req[q] EXCEPT !.route = VaultSpend]) IN
     req' = [req EXCEPT ![q] =
               IF auth = "unconfigured" THEN [r EXCEPT !.stage = "responded", !.status = 500]
               ELSE IF auth = "bad" THEN [r EXCEPT !.stage = "responded", !.status = 401]
               ELSE IF body = "invalid" THEN [r EXCEPT !.stage = "responded", !.status = 400]
               ELSE [r EXCEPT !.stage = "validateCategory"]]
  /\ UNCHANGED src
  /\ OnlyRequest(q)

\* await validateCategory(category) settles
CategoryChecked(q, out) ==
  /\ req[q].stage = "validateCategory"
  /\ req' = [req EXCEPT ![q] =
               IF out = "exists" THEN [@ EXCEPT !.stage = "validateSubcategory"]
               ELSE IF out = "missing" THEN Respond(q, 400)
               ELSE Respond(q, 500)]
  /\ UNCHANGED src
  /\ OnlyRequest(q)

\* await validateSubcategory(category, subcategory) settles
SubcategoryChecked(q, out) ==
  /\ req[q].stage = "validateSubcategory"
  /\ req' = [req EXCEPT ![q] =
               IF out = "exists" THEN [@ EXCEPT !.stage = "addEntry"]
               ELSE IF out = "missing" THEN Respond(q, 400)
               ELSE Respond(q, 500)]
  /\ UNCHANGED src
  /\ OnlyRequest(q)

\* await addEntry(...) settles: the line is in the CSV file and 201 is sent,
\* or the write threw and 500 is sent
EntryAdded(q, ok) ==
  /\ req[q].stage = "addEntry"
  /\ IF ok
     THEN /\ src' = [src EXCEPT !["f1"] = IF @ < MaxVer THEN @ + 1 ELSE 1]
          /\ req' = [req EXCEPT ![q] = [Respond(q, 201) EXCEPT !.wrote = TRUE]]
     ELSE /\ UNCHANGED src
          /\ req' = [req EXCEPT ![q] = Respond(q, 500)]
  /\ OnlyRequest(q)

\* POST /well arrives: apiKeyAuth checks the key, the handler validates
\* type and body and runs to `await writeToMarkdown(...)`
WellArrive(q, auth, body) ==
  /\ req[q].stage = "new"
  /\ LET r == Through(WellPost, [req[q] EXCEPT !.route = WellPost]) IN
     req' = [req EXCEPT ![q] =
               IF auth = "unconfigured" THEN [r EXCEPT !.stage = "responded", !.status = 500]
               ELSE IF auth = "bad" THEN [r EXCEPT !.stage = "responded", !.status = 401]
               ELSE IF body = "invalid" THEN [r EXCEPT !.stage = "responded", !.status = 400]
               ELSE [r EXCEPT !.stage = "writeToMarkdown"]]
  /\ UNCHANGED src
  /\ OnlyRequest(q)

\* await writeToMarkdown(type, body) settles: the entry is appended to the
\* markdown file of the data directory and 201 is sent, or it threw
\* ('Invalid type': 400, anything else: 500)
WellWritten(q, out) ==
  /\ req[q].stage = "writeToMarkdown"
  /\ IF out = "ok"
     THEN /\ src' = [src EXCEPT !["f2"] = IF @ < MaxVer THEN @ + 1 ELSE 1]
          /\ req' = [req EXCEPT ![q] = [Respond(q, 201) EXCEPT !.wrote = TRUE]]
     ELSE /\ UNCHANGED src
          /\ req' = [req EXCEPT ![q] =
                       Respond(q, IF out = "invalidType" THEN 400 ELSE 500)]
  /\ OnlyRequest(q)

\* the setImmediate callback of the middleware calls backupData
TriggerFires(q) ==
  /\ req[q].scheduled
  /\ Enter(q)

InitRequests ==
  /\ variant \in {"A", "B"}
  /\ nodeEnv \in Environments
  /\ repoUrl = FALSE
  /\ authorSet = FALSE
  /\ gitHandle = FALSE
  /\ isBackingUp = FALSE
  /\ src = [n \in Names |-> 1]
  /\ bak = [n \in Names |-> 0]
  /\ index = [n \in Names |-> 0]
  /\ head = [n \in Names |-> 0]
  /\ writes = 0
  /\ faults = 0
  /\ call = [c \in Calls |-> IdleCall]
  /\ StatusIdle
  /\ OthersIdle

NextRequests ==
  \/ \E q \in Calls : \E auth \in {"ok", "bad", "unconfigured"} :
       \E body \in {"valid", "invalid"} : Arrive(q, auth, body)
  \/ \E q \in Calls : \E out \in {"exists", "missing", "throws"} : CategoryChecked(q, out)
  \/ \E q \in Calls : \E out \in {"exists", "missing", "throws"} : SubcategoryChecked(q, out)
  \/ \E q \in Calls : \E ok \in BOOLEAN : EntryAdded(q, ok)
  \/ \E q \in Calls : \E auth \in {"ok", "bad", "unconfigured"} :
       \E body \in {"valid", "invalid"} : WellArrive(q, auth, body)
  \/ \E q \in Calls : \E out \in {"ok", "invalidType", "throws"} : WellWritten(q, out)
  \/ \E q \in Calls : TriggerFires(q)

SpecRequests == InitRequests /\ [][NextRequests]_vars

C16_ModeTestsAgree ==
  \A q \in Calls :
    (nodeEnv = "prod" /\ req[q].route = VaultSpend
       /\ req[q].stage = "responded" /\ req[q].wrote)
      => /\ req[q].scheduled
         /\ Done(q) => call[q].result # DevDisabled

\* ---------------------------------------------------------- initialize()
\* initialize() of both backup managers, called up to MaxInits times one
\* after the other, with BACKUP_SSH_KEY unset.  The environment is fixed for
\* the whole behaviour: repo.libLoads tells whether require('simple-git')
\* and simpleGit(backupDir) go through, repo.libFails is the set of
\* simple-git operations that reject.  The manual commands are the git
\* binary itself: `git init` succeeds on a fresh and on an existing
\* repository, `git remote add origin` fails when origin exists.
MaxInits == 2
LibOps == {"init", "status", "getRemotes", "addRemote"}

LibOk(op) ==
  /\ op \notin repo.libFails
  /\ op \in {"status", "getRemotes", "addRemote"} => repo.exists

OnlyInitialize ==
  /\ UNCHANGED <<variant, nodeEnv, repoUrl, authorSet, isBackingUp,
                 src, bak, index, head, writes, faults, call>>
  /\ UNCHANGED <<svars, probe, req, cm>>

\* initialize() settles: the promise's outcome and the configuration it left
Finish(out, rp) ==
  [init EXCEPT !.pc = "idle",
               !.outcome = Append(@, out),
               !.after = Append(@, <<rp.exists, rp.origin>>)]

\* after the repository block: the remote block, then (backup-manager.js
\* only) the second status block
AfterRepo(rp) ==
  IF repoUrl THEN [init EXCEPT !.pc = "remotes"]
  ELSE IF variant = "A" THEN [init EXCEPT !.pc = "status2"]
  ELSE Finish("resolved", rp)
AfterRemote(rp) ==
  IF variant = "A" THEN [init EXCEPT !.pc = "status2"]
  ELSE Finish("resolved", rp)

\* initialize() from its first statement to its first await
InitializeCall ==
  /\ init.pc = "idle"
  /\ Len(init.outcome) < MaxInits
  /\ IF nodeEnv # "prod" \/ ~repo.libLoads
     THEN /\ init' = Finish("resolved", repo)
          /\ UNCHANGED gitHandle
     ELSE /\ init' = [init EXCEPT !.pc = "mkdir"]
          /\ gitHandle' = TRUE
  /\ UNCHANGED repo
  /\ OnlyInitialize

\* await fs.mkdir(backupDir, {recursive: true})
MkdirDone ==
  /\ init.pc = "mkdir"
  /\ init' = [init EXCEPT !.pc = "init1"]
  /\ UNCHANGED <<repo, gitHandle>>
  /\ OnlyInitialize

\* await this.git.init()
Init1Settled ==
  /\ init.pc = "init1"
  /\ IF LibOk("init")
     THEN LET rp == [repo EXCEPT !.exists = TRUE] IN
          /\ repo' = rp
          /\ init' = AfterRepo(rp)
     ELSE /\ init' = [init EXCEPT !.pc = "status1"]
          /\ UNCHANGED repo
  /\ UNCHANGED gitHandle
  /\ OnlyInitialize

\* initializeWithManualCommands: the repository it leaves and whether it threw
ManualInit(rp) ==
  IF repoUrl /\ rp.origin
  THEN [repo |-> [rp EXCEPT !.exists = TRUE], threw |-> TRUE]
  ELSE [repo |-> [rp EXCEPT !.exists = TRUE, !.origin = repoUrl], threw |-> FALSE]

\* await this.git.status() after a failed init; when it rejects too the
\* manual commands run in the same turn
Status1Settled ==
  /\ init.pc = "status1"
  /\ IF LibOk("status")
     THEN /\ init' = AfterRepo(repo)
          /\ UNCHANGED repo
     ELSE LET m == ManualInit(repo) IN
          /\ repo' = m.repo
          /\ init' = IF m.threw THEN Finish("rejected", m.repo) ELSE AfterRepo(m.repo)
  /\ UNCHANGED gitHandle
  /\ OnlyInitialize

\* await this.git.getRemotes(true)
RemotesSettled ==
  /\ init.pc = "remotes"
  /\ init' = IF LibOk("getRemotes") /\ ~repo.origin
             THEN [init EXCEPT !.pc = "addRemote1"]
             ELSE AfterRemote(repo)
  /\ UNCHANGED <<repo, gitHandle>>
  /\ OnlyInitialize

\* await this.git.addRemote('origin', url) of the remote block
AddRemote1Settled ==
  /\ init.pc = "addRemote1"
  /\ LET rp == IF LibOk("addRemote") THEN [repo EXCEPT !.origin = TRUE] ELSE repo IN
     /\ repo' = rp
     /\ init' = AfterRemote(rp)
  /\ UNCHANGED gitHandle
  /\ OnlyInitialize

\* await this.git.status() of the second block (backup-manager.js)
Status2Settled ==
  /\ init.pc = "status2"
  /\ init' = IF LibOk("status") THEN Finish("resolved", repo)
             ELSE [init EXCEPT !.pc = "init2"]
  /\ UNCHANGED <<repo, gitHandle>>
  /\ OnlyInitialize

\* await this.git.init() of the second block; its error is logged
Init2Settled ==
  /\ init.pc = "init2"
  /\ IF LibOk("init")
     THEN LET rp == [repo EXCEPT !.exists = TRUE] IN
          /\ repo' = rp
          /\ init' = IF repoUrl THEN [init EXCEPT !.pc = "addRemote2"]
                     ELSE Finish("resolved", rp)
     ELSE /\ init' = Finish("resolved", repo)
          /\ UNCHANGED repo
  /\ UNCHANGED gitHandle
  /\ OnlyInitialize

\* await this.git.addRemote('origin', url) of the second block: an error
\* whose message includes 'already exists' leads to one more status()
AddRemote2Settled ==
  /\ init.pc = "addRemote2"
  /\ IF ~LibOk("addRemote")
     THEN /\ init' = Finish("resolved", repo)
          /\ UNCHANGED repo
     ELSE IF repo.origin
     THEN /\ init' = [init EXCEPT !.pc = "status3"]
          /\ UNCHANGED repo
     ELSE LET rp == [repo EXCEPT !.origin = TRUE] IN
          /\ repo' = rp
          /\ init' = Finish("resolved", rp)
  /\ UNCHANGED gitHandle
  /\ OnlyInitialize

\* await this.git.status() inside catch (initError): its rejection reaches
\* the outer catch, which rethrows
Status3Settled ==
  /\ init.pc = "status3"
  /\ init' = Finish(IF LibOk("status") THEN "resolved" ELSE "rejected", repo)
  /\ UNCHANGED <<repo, gitHandle>>
  /\ OnlyInitialize

InitInitialize ==
  /\ variant \in {"A", "B"}
  /\ nodeEnv \in {"prod", "dev"}
  /\ repoUrl \in BOOLEAN
  /\ authorSet = FALSE
  /\ gitHandle = FALSE
  /\ isBackingUp = FALSE
  /\ src = [n \in Names |-> 1]
  /\ bak = [n \in Names |-> 0]
  /\ index = [n \in Names |-> 0]
  /\ head = [n \in Names |-> 0]
  /\ writes = 0
  /\ faults = 0
  /\ call = [c \in Calls |-> IdleCall]
  /\ StatusIdle
  /\ ProbeIdle
  /\ RequestsIdle
  /\ CategoriesIdle
  /\ init = NoInit
  /\ \E e \in BOOLEAN, l \in BOOLEAN, F \in SUBSET LibOps :
       \E o \in (IF e THEN BOOLEAN ELSE {FALSE}) :
         repo = [exists |-> e, origin |-> o, libLoads |-> l, libFails |-> F,
                 branch |-> "master"]

NextInitialize ==
  \/ InitializeCall
  \/ MkdirDone
  \/ Init1Settled
  \/ Status1Settled
  \/ RemotesSettled
  \/ AddRemote1Settled
  \/ Status2Settled
  \/ Init2Settled
  \/ AddRemote2Settled
  \/ Status3Settled

SpecInitialize == InitInitialize /\ [][NextInitialize]_vars

\* C17: initialize() is idempotent: called twice in sequence in production
\* mode, the second call raises no error and leaves the repository
\* configuration (repository initialised, origin remote) as the first call
\* left it, on the library path and on the manual-command path.
C17_InitializeIdempotent ==
  (nodeEnv = "prod" /\ Len(init.outcome) >= 2 /\ init.outcome[1] = "resolved")
    => /\ init.outcome[2] = "resolved"
       /\ init.after[2] = init.after[1]

\* C26: an HTTP probe reports healthy for any response whatever its status
\* code, and only after the response body has been drained: a healthy result
\* exists only once 'end' was raised, and a response that ended before the
\* timer fired gives healthy for every status code.
C26_HealthyAfterDrain ==
  probe.kind = "http" =>
    /\ probe.result.status = "healthy" => probe.phase = "ended"
    /\ (probe.phase = "ended" /\ ~probe.timedOut) => probe.result = Healthy
\* a response with status 500 was drained and the probe is healthy
C26_Witness ==
  /\ probe.kind = "http"
  /\ probe.code = 500
  /\ probe.phase = "ended"
  /\ probe.result = Healthy

\* C27 as stated: in every state where a probe has produced its result its
\* socket or request is closed or being closed.
C27_Original ==
  (probe.kind \in {"http", "tcp"} /\ probe.settled)
    => probe.conn \in {"closed", "destroyed"}

\* C27: a TCP probe that has resolved, and an HTTP probe that has resolved
\* through its timeout or through an error, has destroyed or closed its
\* socket; after a healthy HTTP result the socket is with the agent, closed
\* or kept alive.
C27_NoOpenSocket ==
  /\ (probe.kind = "tcp" /\ probe.settled) => probe.conn \in {"closed", "destroyed"}
  /\ (probe.kind = "http" /\ probe.settled)
       => IF probe.result.status = "healthy"
          THEN probe.conn \in {"closed", "pooled"}
          ELSE probe.conn \in {"closed", "destroyed"}
  /\ probe.timedOut => probe.conn = "destroyed"
\* the TCP probe connected and resolved healthy
C27_Witness ==
  /\ probe.kind = "tcp"
  /\ probe.phase = "connected"
  /\ probe.result = Healthy

\* C28: the container probe returns healthy exactly when the container is
\* running; in every other case it returns unhealthy with the generic
\* 'not found or not running' message.
C28_ContainerGenericError ==
  (probe.kind = "container" /\ probe.settled)
    => \/ probe.result = Healthy
       \/ probe.result = Unhealthy("Container not found or not running")

\* C21: a backupData call that finds isBackingUp true returns
\* skipped-concurrent at once without copying a file or issuing a git
\* operation, and it is dropped: a call that has returned never runs later,
\* and only calls that found the flag false have executed anything.
C21_SkippedIsDropped ==
  /\ [](\A c \in Calls :
          /\ call[c].result = InProgress
               => (Done(c) /\ call[c].ops = {} /\ call[c].copied = {}
                     /\ call[c].commits = 0 /\ ~call[c].held)
          /\ call[c].ops # {} => call[c].busyAt = {})
  /\ [][\A c \in Calls : Done(c) => call'[c] = call[c]]_vars
\* one call was skipped and the run it met is at its push
C21_Witness ==
  \E c, d \in Calls :
    /\ call[d].result = InProgress
    /\ c \in call[d].busyAt
    /\ call[c].pc = "push"

\* operations of the Sync stage, primary and manual
GitOps == {"status", "add", "config", "commit", "branch", "push",
           "m_add", "m_commit", "m_branch", "m_push"}

\* C22: within one backup run no git status, add, commit or push is issued
\* before copyFiles has completed, and if copyFiles throws no git operation
\* is issued at all.
C22_CopyBeforeSync ==
  \A c \in Calls :
    /\ call[c].ops \cap GitOps # {} => call[c].copyDone
    /\ call[c].copyErr # "none" => call[c].ops \cap GitOps = {}
    /\ call[c].pc \in {"readdir", "stat", "read", "write"}
         => call[c].ops \cap GitOps = {}
\* a run is at its commit after both files were copied
C22_Witness ==
  \E c \in Calls :
    /\ call[c].pc = "commit"
    /\ call[c].copyDone
    /\ call[c].copied = Names


\* C24: when readdir of the source directory rejects because the directory
\* does not exist, copyFiles returns normally with nothing copied: it does
\* not throw and the run does not end as failed for that reason.
C24_MissingSourceTolerated ==
  \A c \in Calls :
    /\ call[c].copyErr # "readdir"
    /\ Done(c) => call[c].result # Failed("readdir")


\* C25: copyFiles is additive and one-directional: a file once written to
\* the backup directory stays there in every later step (also when it has
\* been removed from the source), and no step of a backup run creates,
\* modifies or deletes a file of the source directory.
C25_AdditiveOneWay ==
  /\ [][\A n \in Names : bak[n] # 0 => bak'[n] # 0]_vars
  /\ [][src' # src => (writes' = writes + 1 /\ call' = call)]_vars
  /\ [](\A n \in Names : bak[n] # 0 => \E c \in Calls : n \in call[c].copied)
\* a run has completed its copy of a listing taken after a file was removed
\* from the source, and the backup still holds that file
C25_Witness ==
  \E c \in Calls, n \in Names :
    /\ Done(c) /\ call[c].copyDone /\ call[c].copied # {}
    /\ src[n] = 0 /\ bak[n] # 0
    /\ \A i \in 1..Len(call[c].files) : call[c].files[i] # n


\* ------------------------------------------------- push of a backup run
\* backupData() called on an initialized repository (production mode, git
\* handle set) whose HEAD names either branch
InitPush ==
  /\ BackupInit
  /\ nodeEnv = "prod"
  /\ gitHandle
  /\ StatusIdle
  /\ ProbeIdle /\ RequestsIdle /\ CategoriesIdle /\ init = NoInit
  /\ \E b \in Branches :
       repo = [NoRepo EXCEPT !.exists = TRUE, !.origin = repoUrl, !.branch = b]

SpecPush == InitPush /\ [][Next]_vars

PushOps == {"branch", "push", "m_branch", "m_push"}

\* C23: a push is attempted only if a remote URL is configured and only
\* after the commit of the same run has succeeded, and its target is the
\* branch the repository is on at that moment, whichever that is.
C23_PushTarget ==
  \A c \in Calls :
    /\ call[c].ops \cap PushOps # {} => repoUrl
    /\ "push" \in call[c].ops
         => /\ "commit" \in call[c].ops /\ call[c].pc \in {"push", "done"}
            /\ call[c].primaryErr = "none"
            /\ call[c].commits >= 1
            /\ call[c].target = repo.branch
    /\ "m_push" \in call[c].ops
         => /\ "m_commit" \in call[c].ops
            /\ call[c].commits >= 1
            /\ call[c].target = repo.branch
    /\ call[c].target # "none" => call[c].ops \cap {"push", "m_push"} # {}
\* a run has pushed its commit to master, the branch the repository is on
C23_Witness ==
  \E c \in Calls :
    /\ Done(c) /\ "push" \in call[c].ops /\ call[c].pushErr = "none"
    /\ repo.branch = "master" /\ call[c].target = "master"


\* C30: every completed state-mutating request, to the vault API or to
\* POST /well, has scheduled a backup trigger labelled with the method and
\* path of its route.
C30_EveryMutationTriggers ==
  \A q \in Calls :
    (req[q].stage = "responded" /\ req[q].wrote)
      => /\ req[q].scheduled
         /\ req[q].label = (IF req[q].route = VaultSpend
                            THEN "POST /spend" ELSE "POST /")


\* ------------------------------------------- start-up next to backup runs
\* app.js calls backupManager.initialize() without awaiting it (NODE_ENV is
\* 'prod'); backupData() is a method of the same object and may be called
\* while initialize() is suspended at one of its awaits.  The runs taken
\* here are the ones in which no operation of backupData fails.
InitStartup ==
  /\ variant \in {"A", "B"}
  /\ nodeEnv = "prod"
  /\ repoUrl \in BOOLEAN
  /\ authorSet = FALSE
  /\ gitHandle = FALSE
  /\ isBackingUp = FALSE
  /\ src = [n \in Names |-> 1]
  /\ bak = [n \in Names |-> 0]
  /\ index = [n \in Names |-> 0]
  /\ head = [n \in Names |-> 0]
  /\ writes = 0
  /\ faults = 0
  /\ call = [c \in Calls |-> IdleCall]
  /\ StatusIdle
  /\ ProbeIdle
  /\ RequestsIdle
  /\ CategoriesIdle
  /\ init = NoInit
  /\ \E e \in BOOLEAN, F \in SUBSET LibOps :
       \E o \in (IF e THEN BOOLEAN ELSE {FALSE}) :
         repo = [NoRepo EXCEPT !.exists = e, !.origin = o, !.libFails = F]

NextStartup ==
  \/ NextInitialize
  \/ \E c \in Calls : Enter(c)
  \/ \E c \in Calls : ReaddirOk(c)
  \/ \E c \in Calls : StatOk(c)
  \/ \E c \in Calls : ReadOk(c)
  \/ \E c \in Calls : WriteOk(c)
  \/ \E c \in Calls : StatusOk(c)
  \/ \E c \in Calls : AddOk(c)
  \/ \E c \in Calls : CommitOk(c)
  \/ \E c \in Calls : BranchOk(c)
  \/ \E c \in Calls : PushOk(c)

SpecStartup == InitStartup /\ [][NextStartup]_vars

\* C29: while isBackingUp is true no step of initialize() changes the
\* backup repository: neither its existence nor its origin remote changes
\* in a step taken while a backupData run holds the flag.
C29_ExclusiveOwnership ==
  [][isBackingUp => (repo'.exists = repo.exists /\ repo'.origin = repo.origin)]_vars

\* ------------------------------------------- repeated triggers
\* More triggers than MaxCalls: when a call was answered with one of the two
\* early returns, its record is dropped and the slot serves a later trigger
\* (a later setImmediate callback of the middleware).  nth counts the
\* slot's earlier triggers, seen collects the runs that were in flight when
\* they were rejected.
MaxRetriggers == 2

Retrigger(c) ==
  /\ Done(c)
  /\ call[c].result \in {InProgress, DevDisabled}
  /\ ~call[c].held
  /\ call[c].nth < MaxRetriggers
  /\ call' = [call EXCEPT ![c] =
                [IdleCall EXCEPT !.nth = call[c].nth + 1,
                                 !.seen = call[c].seen \cup call[c].busyAt]]
  /\ UNCHANGED <<variant, nodeEnv, repoUrl, authorSet, gitHandle, isBackingUp,
                 src, bak, index, head, writes, faults>>
  /\ UNCHANGED <<svars, xvars>>

InitSkips ==
  /\ BackupInit
  /\ repoUrl
  /\ authorSet
  /\ StatusIdle
  /\ OthersIdle

NextSkips ==
  \/ Next
  \/ \E c \in Calls : Retrigger(c)

SpecSkips == InitSkips /\ [][NextSkips]_vars

\* C31: a backupData call that returns early (a run is in flight, or the
\* mode is not production) leaves isBackingUp as it found it, so every
\* further call entering while the run that holds the flag is still in
\* flight is rejected as well.
C31_RejectionKeepsFlag ==
  /\ [][\A c \in Calls :
          (call[c].pc = "idle" /\ call'[c].pc = "done")
            => isBackingUp' = isBackingUp]_vars
  /\ [][\A c \in Calls :
          (call[c].pc = "idle" /\ call'[c].pc # "idle" /\ nodeEnv = "prod"
             /\ \E d \in Calls : InFlight(d) /\ call[d].held)
            => (call'[c].result = InProgress /\ isBackingUp')]_vars
\* a third trigger was rejected by the same in-flight run that had rejected
\* the trigger before it
C31_Witness ==
  \E c, d \in Calls :
    /\ InFlight(d) /\ call[d].held /\ isBackingUp
    /\ call[c].nth >= 1 /\ d \in call[c].seen
    /\ call[c].result = InProgress /\ d \in call[c].busyAt

\* C32: one backupData run creates at most one commit: a run that entered
\* the manual fallback did so at a step up to the primary commit, which had
\* not gone through, and a run whose primary commit went through (it reached
\* the branch lookup, or returned from the primary path) never enters the
\* fallback.
C32_OneCommitPerRun ==
  \A c \in Calls :
    /\ call[c].commits <= 1
    /\ call[c].fellBack
         => /\ call[c].primaryErr \in {"status", "add", "config1", "config2", "commit"}
            /\ call[c].ops \cap {"branch", "push"} = {}
            /\ call[c].commits = 1 => "m_commit" \in call[c].ops
    /\ ~call[c].fellBack => call[c].ops \cap {"m_add", "m_commit", "m_branch", "m_push"} = {}
\* the primary commit rejected and the fallback made the run's one commit
C32_Witness ==
  \E c \in Calls :
    /\ Done(c) /\ call[c].fellBack /\ call[c].primaryErr = "commit"
    /\ call[c].commits = 1 /\ head = bak

C33_SyncAfterInitialize ==
  \A c \in Calls :
    call[c].ops \cap GitOps # {}
      => (init.pc = "idle" /\ Len(init.outcome) >= 1)

\* ------------------------------------------------------ category manager
\* validateCategory / validateSubcategory ("check"), addCategory ("add"),
\* addSubcategory ("addSub") of category-manager.js and PUT /vault/categories
\* ("put") of vault.js, up to MaxOps calls served by the requests of Procs.
\* Every await on the file system is a step: fs.access of ensureDataDir,
\* fs.readFile (the moment the content is read and the moment the promise
\* resolves), fs.writeFile.  The data directory exists.
MaxOps == 3

OnlyCategories == UNCHANGED <<bvars, svars, probe, req, init, repo>>

SetProc(c, p, r) == [c EXCEPT !.proc[p] = r]
Answer(c, p, res) == SetProc(c, p, [c.proc[p] EXCEPT !.pc = "done", !.result = res])

\* the statements of the caller after `await loadCategories()`, up to its
\* next await or its end
AfterLoad(c, p) ==
  LET r == [c.proc[p] EXCEPT !.had = c.proc[p].arg \in c.map] IN
  IF r.op = "check"
  THEN Answer(c, p, IF r.arg \in c.map THEN "yes" ELSE "no")
  ELSE IF r.op = "addSub" /\ "a" \notin c.map
  THEN Answer(SetProc(c, p, r), p, "noParent")
  ELSE IF r.arg \in c.map
  THEN Answer(SetProc(c, p, r), p, "exists")
  ELSE [c EXCEPT !.map = @ \cup {r.arg},
                 !.proc[p] = [r EXCEPT !.pc = "saveAccess", !.ret = "add"]]

\* loadCategories() from its first statement to its first await
LoadCategories(c, p) ==
  IF c.loaded THEN AfterLoad(c, p)
  ELSE SetProc(c, p, [c.proc[p] EXCEPT !.pc = "access"])

\* a request calls one of the functions; the arguments pass the checks on
\* type and emptiness
CallCategories(p, op, arg) ==
  /\ cm.proc[p].pc = "idle"
  /\ cm.ops < MaxOps
  /\ LET r == [NoProc EXCEPT !.op = op, !.arg = arg, !.sawPuts = cm.puts]
         c == [cm EXCEPT !.ops = @ + 1, !.proc[p] = r] IN
     cm' = LoadCategories(c, p)
  /\ OnlyCategories

\* await ensureDataDir() of loadCategories resolves; readFile is issued
LoadAccessDone(p) ==
  /\ cm.proc[p].pc = "access"
  /\ cm' = SetProc(cm, p, [cm.proc[p] EXCEPT !.pc = "read"])
  /\ OnlyCategories

\* the file is read
LoadRead(p) ==
  /\ cm.proc[p].pc = "read"
  /\ cm' = SetProc(cm, p, [cm.proc[p] EXCEPT !.pc = "readWait", !.buf = cm.file])
  /\ OnlyCategories

\* await fs.readFile resolves: the map is rebuilt from the text read, or,
\* when it does not parse, emptied and saved
LoadReadDone(p) ==
  /\ cm.proc[p].pc = "readWait"
  /\ cm' = IF cm.proc[p].buf = Bad
           THEN [cm EXCEPT !.map = {},
                           !.proc[p] = [@ EXCEPT !.pc = "saveAccess", !.ret = "load"]]
           ELSE AfterLoad([cm EXCEPT !.map = cm.proc[p].buf, !.loaded = TRUE], p)
  /\ OnlyCategories

\* await ensureDataDir() of saveCategories resolves: the JSON text is built
\* from the module's categoryMap as it is now, and writeFile is issued
SaveAccessDone(p) ==
  /\ cm.proc[p].pc = "saveAccess"
  /\ cm' = SetProc(cm, p, [cm.proc[p] EXCEPT !.pc = "saveWrite", !.buf = cm.map,
                                             !.builtAt = cm.puts])
  /\ OnlyCategories

\* await fs.writeFile of saveCategories settles.  Written: loadCategories
\* goes on to `loaded = true`, addCategory and addSubcategory return.
\* Rejected: saveCategories rethrows and so does its caller.
SaveWriteDone(p, ok) ==
  /\ cm.proc[p].pc = "saveWrite"
  /\ LET r == cm.proc[p] IN
     cm' = IF ~ok THEN Answer([cm EXCEPT !.lost = TRUE], p, "error")
           ELSE LET c == [cm EXCEPT !.file = r.buf,
                                    !.stale = @ \/ r.builtAt < cm.puts] IN
                IF r.ret = "load"
                THEN AfterLoad([c EXCEPT !.loaded = TRUE], p)
                ELSE Answer(c, p, "ok")
  /\ OnlyCategories

\* PUT /vault/categories with a content of the full response structure:
\* the handler runs to `await ensureDataDir()` of writeCategoriesFile
CallPut(p, content) ==
  /\ cm.proc[p].pc = "idle"
  /\ cm.ops < MaxOps
  /\ cm' = [cm EXCEPT !.ops = @ + 1,
                      !.proc[p] = [NoProc EXCEPT !.op = "put", !.content = content,
                                                 !.pc = "putAccess",
                                                 !.sawPuts = cm.puts]]
  /\ OnlyCategories

\* ensureDataDir resolves; the content passes the structure test and
\* writeFile is issued
PutAccessDone(p) ==
  /\ cm.proc[p].pc = "putAccess"
  /\ cm' = SetProc(cm, p, [cm.proc[p] EXCEPT !.pc = "putWrite"])
  /\ OnlyCategories

\* await writeCategoriesFile(content) settles.  Written: clearCache() and
\* the 200 response.  Rejected: the 500 response.
PutWriteDone(p, ok) ==
  /\ cm.proc[p].pc = "putWrite"
  /\ cm' = IF ~ok THEN Answer(cm, p, "error")
           ELSE Answer([cm EXCEPT !.file = cm.proc[p].content,
                                  !.loaded = FALSE, !.map = {},
                                  !.puts = @ + 1,
                                  !.lastPut = cm.proc[p].content], p, "ok")
  /\ OnlyCategories

\* the request is over
Forget(p) ==
  /\ cm.proc[p].pc = "done"
  /\ cm' = SetProc(cm, p, NoProc)
  /\ OnlyCategories

InitCategories ==
  /\ BackupIdle
  /\ StatusIdle
  /\ ProbeIdle /\ RequestsIdle /\ InitializeIdle
  /\ \E f \in Maps \cup {Bad} : cm = [NoCategories EXCEPT !.file = f]

NextCategories ==
  \/ \E p \in Procs : \E arg \in Items : CallCategories(p, "check", arg)
  \/ \E p \in Procs : \E arg \in Cats : CallCategories(p, "add", arg)
  \/ \E p \in Procs : CallCategories(p, "addSub", SubItem)
  \/ \E p \in Procs : \E content \in Maps : CallPut(p, content)
  \/ \E p \in Procs : LoadAccessDone(p)
  \/ \E p \in Procs : LoadRead(p)
  \/ \E p \in Procs : LoadReadDone(p)
  \/ \E p \in Procs : SaveAccessDone(p)
  \/ \E p \in Procs : \E ok \in BOOLEAN : SaveWriteDone(p, ok)
  \/ \E p \in Procs : PutAccessDone(p)
  \/ \E p \in Procs : \E ok \in BOOLEAN : PutWriteDone(p, ok)
  \/ \E p \in Procs : Forget(p)

SpecCategories == InitCategories /\ [][NextCategories]_vars

\* C35: once a PUT /vault/categories has completed, no text built from the
\* map of before it is written to the file afterwards, and every category
\* check that begins after it (no later PUT, no other write to the file, no
\* rejected save) is answered from the content the PUT wrote.
C35_CacheCoherent ==
  /\ ~cm.stale
  /\ \A p \in Procs :
       LET r == cm.proc[p] IN
       (r.op = "check" /\ r.pc = "done" /\ r.sawPuts >= 1 /\ r.sawPuts = cm.puts
          /\ cm.file = cm.lastPut /\ ~cm.lost)
         => (r.result = "yes" <=> r.arg \in cm.file)

\* C36: when addCategory or addSubcategory fails, the category map does not
\* hold the item unless it held it before the call; and with no other call
\* in flight and no PUT, 'already exists' is answered only for an item that
\* is in the file.
C36_FailureLeavesMap ==
  /\ [][\A p \in Procs :
          LET r == cm.proc[p]
              t == cm'.proc[p] IN
          (r.op \in {"add", "addSub"} /\ r.pc # "done" /\ t.pc = "done"
             /\ t.result # "ok"
             /\ \A q \in Procs \ {p} : cm.proc[q].arg # r.arg)
            => (r.arg \in cm'.map => t.had)]_vars
  /\ [][\A p \in Procs :
          (cm.proc[p].pc # "done" /\ cm'.proc[p].pc = "done"
             /\ cm'.proc[p].result = "exists" /\ cm.puts = 0
             /\ \A q \in Procs \ {p} : cm.proc[q].pc = "idle")
            => cm'.proc[p].arg \in cm.file]_vars

====
